---- MODULE Spec2Model ----
(***************************************************************************)
(* Model of pkg/storage/storage.go: the storage abstraction layer of mort. *)
(*                                                                         *)
(* Strings that the code inspects character by character (keys, prefixes,  *)
(* header names) are sequences of one-character strings; strings the code  *)
(* only copies (header values, hashes, bucket names) are TLA+ strings.     *)
(***************************************************************************)
EXTENDS Integers, Sequences, FiniteSets, TLC

(***************************************************************************)
(* Bounds of the model.                                                    *)
(***************************************************************************)
\* longest pathPrefix / logical key drawn for getKey
MaxLen == 3
\* most items a backend listing returns
MaxItems == 3
\* most headers passed to one Set
MaxHeaders == 2
\* concurrent request-handling tasks
NProcs == 2
\* getClient calls one behaviour starts
MaxCalls == 3
\* object operations one behaviour starts
MaxOps == 2

(***************************************************************************)
(* Go's strings and path packages, as storage.go uses them.                *)
(***************************************************************************)
Slash == "/"

\* all sequences over S of length 0..n
RECURSIVE SeqsUpTo(_, _)
SeqsUpTo(S, n) ==
  IF n = 0 THEN {<<>>}
  ELSE LET shorter == SeqsUpTo(S, n - 1)
       IN shorter \cup {Append(s, c) : s \in {t \in shorter : Len(t) = n - 1}, c \in S}

\* strings.HasPrefix
HasPrefix(s, p) == Len(s) >= Len(p) /\ SubSeq(s, 1, Len(p)) = p

\* strings.HasSuffix
HasSuffix(s, p) == Len(s) >= Len(p) /\ SubSeq(s, Len(s) - Len(p) + 1, Len(s)) = p

\* strings.TrimPrefix
TrimPrefix(s, p) == IF HasPrefix(s, p) THEN SubSeq(s, Len(p) + 1, Len(s)) ELSE s

\* strings.Split(s, "/"): the pieces between separators; Split("") is one empty piece
RECURSIVE Split(_, _)
Split(s, sep) ==
  IF \A i \in 1..Len(s) : s[i] # sep THEN <<s>>
  ELSE LET i == CHOOSE k \in 1..Len(s) : s[k] = sep /\ \A j \in 1..(k - 1) : s[j] # sep
       IN <<SubSeq(s, 1, i - 1)>> \o Split(SubSeq(s, i + 1, Len(s)), sep)

\* strings.Join(elems, "/")
RECURSIVE StringsJoin(_, _)
StringsJoin(elems, sep) ==
  IF elems = <<>> THEN <<>>
  ELSE IF Len(elems) = 1 THEN elems[1]
  ELSE elems[1] \o <<sep>> \o StringsJoin(Tail(elems), sep)

\* strings.Replace(s, old, new, 1): the first occurrence only
RECURSIVE Replace(_, _, _)
Replace(s, old, new) ==
  IF Len(s) < Len(old) THEN s
  ELSE IF HasPrefix(s, old) THEN new \o SubSeq(s, Len(old) + 1, Len(s))
  ELSE <<s[1]>> \o Replace(Tail(s), old, new)

\* strings.ToLower on the letters the header names of the model use
LowerChar(c) ==
  CASE c = "X" -> "x" [] c = "A" -> "a" [] c = "M" -> "m" [] c = "C" -> "c"
    [] c = "T" -> "t" [] c = "E" -> "e" [] OTHER -> c

ToLower(s) == [i \in 1..Len(s) |-> LowerChar(s[i])]

\* path.Clean's element pass: drop "." and empty elements, resolve ".."
RECURSIVE CleanElems(_, _, _)
CleanElems(elems, out, rooted) ==
  IF elems = <<>> THEN out
  ELSE LET e == Head(elems)
           rest == Tail(elems)
       IN IF e = <<>> \/ e = <<".">> THEN CleanElems(rest, out, rooted)
          ELSE IF e = <<".", ".">>
               THEN IF out # <<>> /\ out[Len(out)] # <<".", ".">>
                    THEN CleanElems(rest, SubSeq(out, 1, Len(out) - 1), rooted)
                    ELSE IF rooted THEN CleanElems(rest, out, rooted)
                    ELSE CleanElems(rest, Append(out, e), rooted)
          ELSE CleanElems(rest, Append(out, e), rooted)

\* path.Clean
Clean(p) ==
  IF p = <<>> THEN <<".">>
  ELSE LET rooted == p[1] = Slash
           body == StringsJoin(CleanElems(Split(p, Slash), <<>>, rooted), Slash)
           res == IF rooted THEN <<Slash>> \o body ELSE body
       IN IF res = <<>> THEN <<".">> ELSE res

\* path.Join(a, b): empty elements are ignored, the rest joined and cleaned
PathJoin(a, b) ==
  IF a = <<>> /\ b = <<>> THEN <<>>
  ELSE IF a = <<>> THEN Clean(b)
  ELSE IF b = <<>> THEN Clean(a)
  ELSE Clean(a \o <<Slash>> \o b)

(***************************************************************************)
(* Storage kinds.                                                          *)
(***************************************************************************)
Kinds == {"local", "http", "s3", "local-meta", "b2"}

\* strings.HasPrefix(storageCfg.Kind, "local")
IsLocalKind(kind) == kind \in {"local", "local-meta"}

(***************************************************************************)
(* getKey                                                                  *)
(***************************************************************************)
getKey_NoTrim(kind, pathPrefix, key) == PathJoin(pathPrefix, key)

getKey(kind, pathPrefix, key) ==
  IF kind = "b2" THEN TrimPrefix(PathJoin(pathPrefix, key), <<Slash>>)
  ELSE PathJoin(pathPrefix, key)

(***************************************************************************)
(* isDir.  An item carries what the backend answers for it: whether        *)
(* Metadata() and Size() fail, the is_dir flag and content-type of its     *)
(* metadata ("absent" when the key is not in the map), and its size.       *)
(***************************************************************************)
DirSentinel == "application/directory"

IsDirFlags == {"absent", "true", "false"}
ContentTypes == {"absent", DirSentinel, "text/plain"}
Sizes == {0, 1, 2}

ItemAttrs ==
  [metaErr : BOOLEAN, sizeErr : BOOLEAN, is_dir : IsDirFlags,
   ct : ContentTypes, size : Sizes]

isDir_SizeFirst(item) ==
  IF item.metaErr THEN FALSE
  ELSE IF ~item.sizeErr /\ item.size = 0 THEN TRUE
  ELSE IF item.is_dir # "absent" THEN item.is_dir = "true"
  ELSE IF item.ct # "absent" THEN item.ct = DirSentinel
  ELSE FALSE

isDir(item) ==
  IF item.metaErr THEN FALSE
  ELSE IF item.is_dir # "absent" THEN item.is_dir = "true"
  ELSE IF item.ct # "absent" THEN item.ct = DirSentinel
  ELSE IF item.sizeErr THEN FALSE
  ELSE item.size = 0

(***************************************************************************)
(* Metadata translation.  A header map is a function from header names to  *)
(* non-empty value lists; a metadata map and a response's header set are   *)
(* functions from names to values.  Go visits a map in an unspecified      *)
(* order: the order is an argument.                                        *)
(***************************************************************************)
XAmzMeta == <<"x", "-", "a", "m", "z", "-", "m", "e", "t", "a">>
XAmzMetaDash == XAmzMeta \o <<"-">>
XDash == <<"x", "-">>
ContentTypeKey == <<"c", "o", "n", "t", "e", "n", "t", "-", "t", "y", "p", "e">>
CacheControlKey == <<"c", "a", "c", "h", "e", "-", "c", "o", "n", "t", "r", "o", "l">>
ETagKey == <<"e", "t", "a", "g">>

EmptyMap == [k \in {} |-> ""]

MapSet(m, k, v) == [x \in (DOMAIN m) \cup {k} |-> IF x = k THEN v ELSE m[x]]

\* every order in which the keys of S can be visited
RECURSIVE Orders(_)
Orders(S) ==
  IF S = {} THEN {<<>>}
  ELSE UNION {{<<x>> \o o : o \in Orders(S \ {x})} : x \in S}

\* res.Set(name, value): header names are case-insensitive
ResSet(headers, name, value) == MapSet(headers, ToLower(name), value)

RECURSIVE prepareMetadata_KeepPrefix(_, _, _, _)
prepareMetadata_KeepPrefix(kind, metaHeaders, order, metadata) ==
  IF order = <<>> THEN metadata
  ELSE LET k == Head(order)
           keyLower == ToLower(k)
           keep == \/ HasPrefix(keyLower, XAmzMeta)
                   \/ keyLower = ContentTypeKey
                   \/ (kind # "s3" /\ keyLower = ETagKey)
       IN prepareMetadata_KeepPrefix(kind, metaHeaders, Tail(order),
            IF keep THEN MapSet(metadata, keyLower, metaHeaders[k][1]) ELSE metadata)

\* prepareMetadata: the loop over metaHeaders, from the metadata built so far
RECURSIVE prepareMetadata(_, _, _, _)
prepareMetadata(kind, metaHeaders, order, metadata) ==
  IF order = <<>> THEN metadata
  ELSE LET k == Head(order)
           v == metaHeaders[k]
           keyLower == ToLower(k)
           keep == \/ HasPrefix(keyLower, XAmzMeta)
                   \/ keyLower = ContentTypeKey
                   \/ (kind # "s3" /\ keyLower = ETagKey)
           stored == IF kind = "s3" THEN Replace(keyLower, XAmzMetaDash, <<>>)
                     ELSE keyLower
       IN prepareMetadata(kind, metaHeaders, Tail(order),
            IF keep THEN MapSet(metadata, stored, v[1]) ELSE metadata)

\* parseMetadata, first loop: cache-control and every x- key pass through
RECURSIVE parsePassThrough(_, _, _)
parsePassThrough(metadata, order, headers) ==
  IF order = <<>> THEN headers
  ELSE LET k == ToLower(Head(order))
           v == metadata[Head(order)]
           h1 == IF k = CacheControlKey THEN ResSet(headers, k, v) ELSE headers
           h2 == IF HasPrefix(k, XDash) THEN ResSet(h1, k, v) ELSE h1
       IN parsePassThrough(metadata, Tail(order), h2)

\* parseMetadata, the s3 loop: every key again, re-prefixed unless it is
\* cache-control or content-type
RECURSIVE parseS3(_, _, _)
parseS3(metadata, order, headers) ==
  IF order = <<>> THEN headers
  ELSE LET k == Head(order)
           v == metadata[k]
           h == IF k = CacheControlKey \/ k = ContentTypeKey
                THEN ResSet(headers, k, v)
                ELSE ResSet(headers, XAmzMeta \o <<"-">> \o k, v)
       IN parseS3(metadata, Tail(order), h)

parseMetadata(kind, metadata, order1, order2, headers) ==
  LET h == parsePassThrough(metadata, order1, headers)
  IN IF kind = "s3" THEN parseS3(metadata, order2, h) ELSE h

(***************************************************************************)
(* List: the loop over the items the backend returned.  A listed item is   *)
(* its ID(), its Name() and the attributes isDir reads.  The result keeps  *)
(* the Key of every Contents entry and the Prefix of every CommonPrefixes  *)
(* entry, in order.                                                        *)
(***************************************************************************)
RECURSIVE ListLoop_NoSeen(_, _, _, _)
ListLoop_NoSeen(items, prefix, commonPrefixes, result) ==
  IF items = <<>> THEN result
  ELSE LET item == Head(items)
           itemID == item.id
           filePath == Split(itemID, Slash)
           prefixPath == Split(prefix, Slash)
           deeper == Len(filePath) > Len(prefixPath)
           key0 == IF deeper THEN StringsJoin(SubSeq(filePath, 1, Len(prefixPath)), Slash)
                   ELSE item.name
           commonPrefix == IF deeper THEN key0
                           ELSE (IF isDir(item.attrs) THEN key0 ELSE <<>>)
           key == IF itemID[Len(itemID)] = Slash THEN key0 \o <<Slash>> ELSE key0
           contents == IF key # <<>> THEN Append(result.Contents, key)
                       ELSE result.Contents
           prefixes == IF commonPrefix # <<>>
                       THEN Append(result.CommonPrefixes, commonPrefix \o <<Slash>>)
                       ELSE result.CommonPrefixes
       IN ListLoop_NoSeen(Tail(items), prefix, commonPrefixes,
                          [Contents |-> contents, CommonPrefixes |-> prefixes])

RECURSIVE ListLoop(_, _, _, _)
ListLoop(items, prefix, commonPrefixes, result) ==
  IF items = <<>> THEN result
  ELSE LET item == Head(items)
           itemID == item.id
           filePath == Split(itemID, Slash)
           prefixPath == Split(prefix, Slash)
           deeper == Len(filePath) > Len(prefixPath)
           key0 == IF deeper THEN StringsJoin(SubSeq(filePath, 1, Len(prefixPath)), Slash)
                   ELSE item.name
           ok == key0 \in commonPrefixes
           commonPrefix == IF deeper THEN (IF ~ok THEN key0 ELSE <<>>)
                           ELSE (IF isDir(item.attrs) /\ ~ok THEN key0 ELSE <<>>)
           seen == IF deeper THEN (IF ~ok THEN commonPrefixes \cup {key0} ELSE commonPrefixes)
                   ELSE (IF isDir(item.attrs) /\ ~ok THEN commonPrefixes \cup {key0}
                         ELSE commonPrefixes)
           key == IF itemID[Len(itemID)] = Slash THEN key0 \o <<Slash>> ELSE key0
           contents == IF key # <<>> THEN Append(result.Contents, key)
                       ELSE result.Contents
           prefixes == IF commonPrefix # <<>>
                       THEN Append(result.CommonPrefixes, commonPrefix \o <<Slash>>)
                       ELSE result.CommonPrefixes
       IN ListLoop(Tail(items), prefix, seen,
                   [Contents |-> contents, CommonPrefixes |-> prefixes])

\* the effective prefix of List
ListPrefix_Raw(pathPrefix, prefix) == pathPrefix \o prefix

ListPrefix(pathPrefix, prefix) == PathJoin(pathPrefix, prefix)

\* the listBucketResult of List, once client.Items has returned items
ListResult(pathPrefix, prefix, items) ==
  ListLoop(items, ListPrefix(pathPrefix, prefix), {},
           [Contents |-> <<>>, CommonPrefixes |-> <<>>])

(***************************************************************************)
(* State.                                                                  *)
(***************************************************************************)
VARIABLES
  call,          \* the helper call under way: its name and arguments
  ret,           \* what it has returned so far
  storageCache,  \* storageCache: hash -> container (NoConn: no entry)
  readers,       \* storageCacheLock: the tasks holding the shared lock
  writer,        \* storageCacheLock: the task holding the exclusive lock, or NoProc
  fatal,         \* the Go runtime has stopped the process (concurrent map access)
  exists,        \* the buckets each backend has, as <<hash, bucket>>
  config,        \* the storage configuration this behaviour's requests carry
  calls,         \* getClient calls started so far
  callNo,        \* per task: the number of its call, which names the container it makes
  pc,            \* per task: its position in getClient
  obj,           \* per task: the FileObject of its call
  container,     \* per task: getClient's local container
  result,        \* per task: what its last getClient returned
  everOk,        \* history: the hashes some getClient has returned a container for
  stable,        \* history: per hash, the entry cached when its calls had all returned
  after,         \* history: per task, whether its call began after that point
  seen,          \* history: per task, the cache entry of its hash when its call began
  key,           \* the logical key this behaviour's requests carry
  store,         \* the backend's item under that key (present or not)
  ops,           \* operations started so far
  opc,           \* per task: its position in its operation
  op,            \* per task: what its operation has done so far
  solo,          \* per task, history: no other task's operation has overlapped its own
  log            \* history: the last two operations completed, oldest first

pureVars == <<call, ret>>
regVars == <<storageCache, readers, writer, fatal, exists, config, calls, callNo, pc, obj, container,
             result, everOk, stable, after, seen>>
opsVars == <<key, store, ops, opc, op, solo, log>>
vars == <<pureVars, regVars, opsVars>>

(***************************************************************************)
(* The Client Registry's data.                                             *)
(***************************************************************************)
Procs == 1..NProcs
NoProc == 0

\* storage configurations: the kind, the hash and the bucket override
CfgS3 == [Kind |-> "s3", Hash |-> "h-s3", Bucket |-> "", PathPrefix |-> <<Slash>>]
CfgB2 == [Kind |-> "b2", Hash |-> "h-b2", Bucket |-> "", PathPrefix |-> <<"p">>]
CfgHttp == [Kind |-> "http", Hash |-> "h-http", Bucket |-> "", PathPrefix |-> <<>>]
CfgLocal == [Kind |-> "local", Hash |-> "h-local", Bucket |-> "", PathPrefix |-> <<>>]
CfgMeta == [Kind |-> "local-meta", Hash |-> "h-meta", Bucket |-> "ovr", PathPrefix |-> <<"p">>]
Configs == {CfgS3, CfgB2, CfgHttp, CfgLocal, CfgMeta}

\* the configurations the object operations run with: one for each way Get,
\* Head, Set, Delete and List tell kinds apart (s3, local-meta, any other)
OpsConfigs == {CfgS3, CfgLocal, CfgMeta}
Hashes == {c.Hash : c \in Configs}

ObjBuckets == {"b1"}
BucketNames == (ObjBuckets \cup {c.Bucket : c \in Configs}) \ {""}

\* the FileObject as getClient reads it
Objects == [Bucket : ObjBuckets, Storage : Configs]
NoObject ==
  [Bucket |-> "", Storage |-> [Kind |-> "", Hash |-> "", Bucket |-> "", PathPrefix |-> <<>>]]

\* a stow.Container: the call that made it, its backend and its bucket
Conn(id, hash, bucket) == [id |-> id, hash |-> hash, bucket |-> bucket]
\* no entry in the map / no container
NoConn == Conn(0, "", "")
\* an entry whose element is still the zero value
NilConn == Conn(-1, "", "")

NoResult == [client |-> NoConn, err |-> "none"]

\* the registry at rest
RegIdle ==
  /\ storageCache = [h \in Hashes |-> NoConn]
  /\ readers = {}
  /\ writer = NoProc
  /\ fatal = FALSE
  /\ calls = 0
  /\ callNo = [p \in Procs |-> 0]
  /\ pc = [p \in Procs |-> "idle"]
  /\ obj = [p \in Procs |-> NoObject]
  /\ container = [p \in Procs |-> NoConn]
  /\ result = [p \in Procs |-> NoResult]
  /\ everOk = {}
  /\ stable = [h \in Hashes |-> NoConn]
  /\ after = [p \in Procs |-> FALSE]
  /\ seen = [p \in Procs |-> NoConn]

(***************************************************************************)
(* The helpers alone: Init draws a call, one action per helper applies it.  *)
(***************************************************************************)
PathChars == {Slash, "a", "b", "."}
PathStrings == SeqsUpTo(PathChars, MaxLen)

GetKeyCalls == [fn : {"getKey"}, kind : Kinds, pathPrefix : PathStrings, key : PathStrings]

IsDirCalls == [fn : {"isDir"}, item : ItemAttrs]

\* header names a Set may carry
HdrColor == XAmzMetaDash \o <<"c">>
HdrColorUpper == <<"X", "-", "A", "m", "z", "-", "M", "e", "t", "a", "-", "c">>
HdrContentType == <<"C", "o", "n", "t", "e", "n", "t", "-", "T", "y", "p", "e">>
HdrMetaContentType == XAmzMetaDash \o ContentTypeKey
HdrMetaCacheControl == XAmzMetaDash \o CacheControlKey
HdrMetaX == XAmzMetaDash \o XDash \o <<"c">>
HdrETag == <<"E", "T", "a", "g">>
HdrOther == <<"a", "c", "c", "e", "p", "t">>

HeaderNames ==
  {HdrColor, HdrColorUpper, HdrContentType, HdrMetaContentType, HdrMetaCacheControl,
   HdrMetaX, HdrETag, HdrOther, CacheControlKey}

HeaderValues == {<<"red">>, <<"text/plain">>, <<"red", "blue">>}

HeaderMaps ==
  UNION {[names -> HeaderValues] :
           names \in {S \in SUBSET HeaderNames : Cardinality(S) <= MaxHeaders}}

MetaCalls == [fn : {"metadata"}, kind : Kinds, metaHeaders : HeaderMaps]

\* items a backend may list
FileAttrs == [metaErr |-> FALSE, sizeErr |-> FALSE, is_dir |-> "absent", ct |-> "absent", size |-> 1]
DirAttrs == [metaErr |-> FALSE, sizeErr |-> FALSE, is_dir |-> "true", ct |-> "absent", size |-> 0]

IdAB == <<"a", Slash, "b">>
IdAC == <<"a", Slash, "c">>
IdADE == <<"a", Slash, "d", Slash, "e">>
IdADF == <<"a", Slash, "d", Slash, "f">>
IdAD == <<"a", Slash, "d", Slash>>
IdB == <<"b">>
ListIDs == {IdAB, IdAC, IdADE, IdADF, IdAD, IdB}

\* Name() is the ID (an object store) or its last element (a file system)
BaseName(id) ==
  LET parts == Split(id, Slash)
      named == {i \in 1..Len(parts) : parts[i] # <<>>}
  IN IF named = {} THEN <<>> ELSE parts[CHOOSE i \in named : \A j \in named : j <= i]

ListedItem(id, style, attrs) ==
  [id |-> id, name |-> IF style = "id" THEN id ELSE BaseName(id), attrs |-> attrs]

\* listings of distinct IDs, at most n long
RECURSIVE Listings(_, _)
Listings(style, n) ==
  IF n = 0 THEN {<<>>}
  ELSE LET shorter == Listings(style, n - 1)
       IN shorter \cup
          {Append(l, ListedItem(id, style, a)) :
             l \in {t \in shorter : Len(t) = n - 1},
             id \in ListIDs, a \in {FileAttrs, DirAttrs}}

DistinctIDs(l) == \A i, j \in 1..Len(l) : i # j => l[i].id # l[j].id

ListPrefixes == {<<>>, <<"a", Slash>>, <<"a", Slash, "d", Slash>>, <<"a">>}

ListCalls ==
  UNION {[fn : {"List"}, pathPrefix : {<<>>, <<Slash>>}, prefix : ListPrefixes,
          items : {l \in Listings(style, MaxItems) : DistinctIDs(l)}] :
           style \in {"id", "base"}}

(***************************************************************************)
(* The object operations' data.  One behaviour works on one object: its    *)
(* bucket, its storage configuration and its logical key.                  *)
(***************************************************************************)
notFound == "{\"error\":\"item not found\"}"

\* logical keys: a file's, and the root's (a key that ends in a separator)
OpsKeys == {<<"a">>, <<Slash>>}

\* a stow.Item as the operations read it: isDir's attributes, and whether ETag()
\* and LastMod() fail
StoredItem(attrs, etagErr, lastModErr) ==
  [present |-> TRUE, attrs |-> attrs, etagErr |-> etagErr, lastModErr |-> lastModErr]
NoItem == [present |-> FALSE, attrs |-> FileAttrs, etagErr |-> FALSE, lastModErr |-> FALSE]

ZeroAttrs == [FileAttrs EXCEPT !.size = 0]
MetaErrAttrs == [FileAttrs EXCEPT !.metaErr = TRUE]

\* what the backend may hold under the key when the behaviour starts
StoredItems ==
  {StoredItem(a, FALSE, FALSE) : a \in {FileAttrs, DirAttrs, ZeroAttrs, MetaErrAttrs}}
    \cup {StoredItem(FileAttrs, TRUE, FALSE), StoredItem(FileAttrs, FALSE, TRUE)}

\* the item has nothing the backend fails to read
Healthy(item) ==
  ~item.attrs.metaErr /\ ~item.attrs.sizeErr /\ ~item.etagErr /\ ~item.lastModErr

\* Set's arguments
SetHeaders == {EmptyMap, [k \in {HdrContentType} |-> <<"text/plain">>]}
SetArgs == [contentLen : {0, 1}, metaHeaders : SetHeaders]

\* a response: status, body and content-type
Response(status, body, ct) == [status |-> status, body |-> body, ct |-> ct]
NoResponse == Response(0, "", "")

\* the listBucketResult a response body is marshalled from
NoListing == [Contents |-> <<>>, CommonPrefixes |-> <<>>]

NoArgs == [contentLen |-> 0, metaHeaders |-> EmptyMap]

\* what an operation did and answered: getClient's and client.Item's answers,
\* the item fetched, whether item.Open was called, the backend calls made, and
\* whether the backend failed at any of them; for Set its arguments and the
\* client.Put calls it made, for Delete the response of its Head
NoRun ==
  [name |-> "none", resp |-> NoResponse, conn |-> "none", fetch |-> "none",
   item |-> NoItem, opened |-> FALSE, backend |-> {}, fault |-> FALSE, solo |-> TRUE,
   listing |-> NoListing, args |-> NoArgs, puts |-> <<>>, head |-> NoResponse]

\* the operations at rest
OpsIdle ==
  /\ ops = 0
  /\ opc = [p \in Procs |-> "idle"]
  /\ op = [p \in Procs |-> NoRun]
  /\ solo = [p \in Procs |-> TRUE]
  /\ log = <<NoRun, NoRun>>

NotReturned == [done |-> FALSE]

InitPure ==
  /\ \/ call \in GetKeyCalls
     \/ call \in IsDirCalls
     \/ call \in MetaCalls
     \/ call \in ListCalls
  /\ ret = NotReturned
  /\ RegIdle
  /\ exists = {}
  /\ config = CfgS3
  /\ OpsIdle
  /\ key = <<>>
  /\ store = NoItem

DoGetKey ==
  /\ call.fn = "getKey" /\ ~ret.done
  /\ ret' = [done |-> TRUE, key |-> getKey(call.kind, call.pathPrefix, call.key)]
  /\ UNCHANGED <<call, regVars, opsVars>>

DoIsDir ==
  /\ call.fn = "isDir" /\ ~ret.done
  /\ ret' = [done |-> TRUE, dir |-> isDir(call.item)]
  /\ UNCHANGED <<call, regVars, opsVars>>

\* Set's prepareMetadata; the backend keeps the map as put
DoPrepareMetadata ==
  /\ call.fn = "metadata" /\ ~ret.done
  /\ \E order \in Orders(DOMAIN call.metaHeaders) :
       ret' = [done |-> TRUE, read |-> FALSE,
               metadata |-> prepareMetadata(call.kind, call.metaHeaders, order, EmptyMap),
               headers |-> EmptyMap]
  /\ UNCHANGED <<call, regVars, opsVars>>

\* a later Get or Head: parseMetadata on the stored map
DoParseMetadata ==
  /\ call.fn = "metadata" /\ ret.done /\ ~ret.read
  /\ \E order1 \in Orders(DOMAIN ret.metadata), order2 \in Orders(DOMAIN ret.metadata) :
       ret' = [ret EXCEPT !.read = TRUE,
                          !.headers = parseMetadata(call.kind, ret.metadata, order1, order2,
                                                    EmptyMap)]
  /\ UNCHANGED <<call, regVars, opsVars>>

DoList ==
  /\ call.fn = "List" /\ ~ret.done
  /\ ret' = [done |-> TRUE, result |-> ListResult(call.pathPrefix, call.prefix, call.items)]
  /\ UNCHANGED <<call, regVars, opsVars>>

NextPure == DoGetKey \/ DoIsDir \/ DoPrepareMetadata \/ DoParseMetadata \/ DoList

SpecPure == InitPure /\ [][NextPure]_vars

(***************************************************************************)
(* getClient, step by step.  A step is what one task does between two      *)
(* points where another task can run: taking or releasing the lock, one    *)
(* access of the map, one call of the backend driver.  The driver's        *)
(* answers (Dial, Container, CreateContainer failing) are the backend's    *)
(* choice; whether a bucket is there is the backend's state.               *)
(***************************************************************************)
HashOf(p) == obj[p].Storage.Hash

\* bucketName: the configuration's bucket when it has one, else the object's
BucketName(o) == IF o.Storage.Bucket # "" THEN o.Storage.Bucket ELSE o.Bucket

\* c, ok := storageCache[hash]
CacheHit_Never(c) == FALSE

CacheHit(c) == c # NoConn

\* task q is inside a getClient call for hash h
Inside(pcs, objs, q, h) == pcs[q] \notin {"idle", "returned"} /\ objs[q].Storage.Hash = h

\* the history the properties read: kept up to date by every step
History ==
  /\ everOk' = everOk \cup {h \in Hashes : \E p \in Procs :
                              /\ pc[p] # "returned" /\ pc'[p] = "returned"
                              /\ obj'[p].Storage.Hash = h /\ result'[p].err = ""}
  /\ stable' = [h \in Hashes |->
                  IF stable[h] # NoConn THEN stable[h]
                  ELSE IF h \in everOk' /\ \A q \in Procs : ~Inside(pc', obj', q, h)
                       THEN storageCache'[h]
                       ELSE NoConn]

\* return c, err
Return(p, c, err) ==
  /\ pc' = [pc EXCEPT ![p] = "returned"]
  /\ result' = [result EXCEPT ![p] = [client |-> c, err |-> err]]

\* line 267: storageCacheLock.RLock()
RLock(p) ==
  /\ ~fatal /\ pc[p] \in {"idle", "returned"} /\ calls < MaxCalls
  /\ writer = NoProc
  /\ \E o \in {x \in Objects : x.Storage = config} :
       /\ obj' = [obj EXCEPT ![p] = o]
       /\ after' = [after EXCEPT ![p] = stable[o.Storage.Hash] # NoConn]
       /\ seen' = [seen EXCEPT ![p] = storageCache[o.Storage.Hash]]
  /\ calls' = calls + 1
  /\ callNo' = [callNo EXCEPT ![p] = calls + 1]
  /\ readers' = readers \cup {p}
  /\ pc' = [pc EXCEPT ![p] = "lookup"]
  /\ container' = [container EXCEPT ![p] = NoConn]
  /\ result' = [result EXCEPT ![p] = NoResult]
  /\ UNCHANGED <<storageCache, writer, fatal, exists, config>>
  /\ History
  /\ UNCHANGED <<pureVars, opsVars>>

Lookup_Dial(p) ==
  /\ ~fatal /\ pc[p] = "lookup"
  /\ readers' = readers \ {p}
  /\ pc' = [pc EXCEPT ![p] = "dial"] /\ UNCHANGED result
  /\ UNCHANGED <<storageCache, writer, fatal, exists, config, calls, callNo, obj, container, after, seen>>
  /\ History
  /\ UNCHANGED <<pureVars, opsVars>>

\* lines 269-273: the lookup, and RUnlock on either branch
Lookup(p) ==
  /\ ~fatal /\ pc[p] = "lookup"
  /\ readers' = readers \ {p}
  /\ IF CacheHit(storageCache[HashOf(p)])
     THEN Return(p, storageCache[HashOf(p)], "")
     ELSE pc' = [pc EXCEPT ![p] = "dial"] /\ UNCHANGED result
  /\ UNCHANGED <<storageCache, writer, fatal, exists, config, calls, callNo, obj, container, after, seen>>
  /\ History
  /\ UNCHANGED <<pureVars, opsVars>>

\* lines 275-314: the configuration is built and stow.Dial called
Dial(p) ==
  /\ ~fatal /\ pc[p] = "dial"
  /\ \/ pc' = [pc EXCEPT ![p] = "container"] /\ UNCHANGED result
     \/ Return(p, NoConn, "dial")
  /\ UNCHANGED <<storageCache, readers, writer, fatal, exists, config, calls, callNo, obj, container, after, seen>>
  /\ History
  /\ UNCHANGED <<pureVars, opsVars>>

Container_CreateAny(p) ==
  /\ ~fatal /\ pc[p] = "container"
  /\ LET o == obj[p]
         h == o.Storage.Hash
     IN \/ /\ <<h, BucketName(o)>> \in exists
           /\ container' = [container EXCEPT ![p] = Conn(callNo[p], h, BucketName(o))]
           /\ pc' = [pc EXCEPT ![p] = "lock"]
           /\ UNCHANGED result
        \/ /\ <<h, BucketName(o)>> \notin exists
           /\ pc' = [pc EXCEPT ![p] = "create"] /\ UNCHANGED result
           /\ UNCHANGED container
        \/ /\ Return(p, NoConn, "container")
           /\ UNCHANGED container
  /\ UNCHANGED <<storageCache, readers, writer, fatal, exists, config, calls, callNo, obj, after, seen>>
  /\ History
  /\ UNCHANGED <<pureVars, opsVars>>

\* lines 318-337: client.Container(bucketName) and the branch on its error
Container(p) ==
  /\ ~fatal /\ pc[p] = "container"
  /\ LET o == obj[p]
         h == o.Storage.Hash
     IN \/ /\ <<h, BucketName(o)>> \in exists
           /\ container' = [container EXCEPT ![p] = Conn(callNo[p], h, BucketName(o))]
           /\ pc' = [pc EXCEPT ![p] = "lock"]
           /\ UNCHANGED result
        \/ /\ <<h, BucketName(o)>> \notin exists
           /\ IF IsLocalKind(o.Storage.Kind)
              THEN pc' = [pc EXCEPT ![p] = "create"] /\ UNCHANGED result
              ELSE Return(p, NoConn, "not found")
           /\ UNCHANGED container
        \/ /\ Return(p, NoConn, "container")
           /\ UNCHANGED container
  /\ UNCHANGED <<storageCache, readers, writer, fatal, exists, config, calls, callNo, obj, after, seen>>
  /\ History
  /\ UNCHANGED <<pureVars, opsVars>>

\* lines 328-331: client.CreateContainer(obj.Bucket)
CreateContainer(p) ==
  /\ ~fatal /\ pc[p] = "create"
  /\ \/ /\ exists' = exists \cup {<<HashOf(p), obj[p].Bucket>>}
        /\ container' = [container EXCEPT ![p] = Conn(callNo[p], HashOf(p), obj[p].Bucket)]
        /\ pc' = [pc EXCEPT ![p] = "cstore"]
        /\ UNCHANGED result
     \/ /\ Return(p, NoConn, "create")
        /\ UNCHANGED <<exists, container>>
  /\ UNCHANGED <<storageCache, readers, writer, fatal, config, calls, callNo, obj, after, seen>>
  /\ History
  /\ UNCHANGED <<pureVars, opsVars>>

\* line 332, first half: the map finds or makes the entry, with no lock held
CreateStore(p) ==
  /\ ~fatal /\ pc[p] = "cstore"
  /\ storageCache' = [storageCache EXCEPT
                        ![HashOf(p)] = IF @ = NoConn THEN NilConn ELSE @]
  /\ pc' = [pc EXCEPT ![p] = "cassign"]
  /\ UNCHANGED <<readers, writer, fatal, exists, config, calls, callNo, obj, container, result, after, seen>>
  /\ History
  /\ UNCHANGED <<pureVars, opsVars>>

\* lines 332-333, second half: the element is written, and the container returned
CreateAssign(p) ==
  /\ ~fatal /\ pc[p] = "cassign"
  /\ storageCache' = [storageCache EXCEPT ![HashOf(p)] = container[p]]
  /\ Return(p, container[p], "")
  /\ UNCHANGED <<readers, writer, fatal, exists, config, calls, callNo, obj, container, after, seen>>
  /\ History
  /\ UNCHANGED <<pureVars, opsVars>>

\* line 339: storageCacheLock.Lock()
Lock(p) ==
  /\ ~fatal /\ pc[p] = "lock"
  /\ readers = {} /\ writer = NoProc
  /\ writer' = p
  /\ pc' = [pc EXCEPT ![p] = "store"]
  /\ UNCHANGED <<storageCache, readers, fatal, exists, config, calls, callNo, obj, container, result, after, seen>>
  /\ History
  /\ UNCHANGED <<pureVars, opsVars>>

\* line 340: storageCache[storageCfg.Hash] = container
Store(p) ==
  /\ ~fatal /\ pc[p] = "store"
  /\ storageCache' = [storageCache EXCEPT ![HashOf(p)] = container[p]]
  /\ pc' = [pc EXCEPT ![p] = "unlock"]
  /\ UNCHANGED <<readers, writer, fatal, exists, config, calls, callNo, obj, container, result, after, seen>>
  /\ History
  /\ UNCHANGED <<pureVars, opsVars>>

\* lines 341-342: storageCacheLock.Unlock() and the return
Unlock(p) ==
  /\ ~fatal /\ pc[p] = "unlock"
  /\ writer' = NoProc
  /\ Return(p, container[p], "")
  /\ UNCHANGED <<storageCache, readers, fatal, exists, config, calls, callNo, obj, container, after, seen>>
  /\ History
  /\ UNCHANGED <<pureVars, opsVars>>

\* a task is at a map access that a lock orders after every other access
Guarded(p) == pc[p] \in {"lookup", "store"}

\* a task is at the map write of line 332, which no lock orders
Unguarded(p) == pc[p] = "cstore"

\* line 332 against another access of the map: Go's runtime may find the two
\* at once and stop the process ("fatal error: concurrent map writes",
\* "concurrent map read and map write"); when it does not, they take effect
\* one after the other, as the steps above
MapRace ==
  /\ ~fatal
  /\ \E p, q \in Procs : p # q /\ Unguarded(p) /\ (Guarded(q) \/ Unguarded(q))
  /\ fatal' = TRUE
  /\ UNCHANGED <<storageCache, readers, writer, exists, config, calls, callNo, pc, obj, container, result,
                 after, seen>>
  /\ History
  /\ UNCHANGED <<pureVars, opsVars>>

\* the behaviour's configuration is any one; its backend starts with every bucket
\* or with none
Init ==
  /\ RegIdle
  /\ config \in Configs
  /\ \E bs \in {{}, BucketNames} : exists = {<<config.Hash, b>> : b \in bs}
  /\ call = [fn |-> "none"]
  /\ ret = NotReturned
  /\ OpsIdle
  /\ key = <<>>
  /\ store = NoItem

Next ==
  \/ \E p \in Procs : RLock(p)
  \/ \E p \in Procs : Lookup(p)
  \/ \E p \in Procs : Dial(p)
  \/ \E p \in Procs : Container(p)
  \/ \E p \in Procs : CreateContainer(p)
  \/ \E p \in Procs : CreateStore(p)
  \/ \E p \in Procs : CreateAssign(p)
  \/ \E p \in Procs : Lock(p)
  \/ \E p \in Procs : Store(p)
  \/ \E p \in Procs : Unlock(p)
  \/ MapRace

Spec == Init /\ [][Next]_vars

(***************************************************************************)
(* The object operations.  A step is one operation from call to return,    *)
(* but for Delete, which another task can overtake between its Head and    *)
(* its RemoveItem.  getClient runs inside a step with no other task        *)
(* between its lines.  What a backend call answers is the backend's        *)
(* choice, within what its state allows.                                   *)
(***************************************************************************)
\* the object of the behaviour's requests
TheObject == [Bucket |-> "b1", Storage |-> config]

\* getClient with no other task between its lines: every outcome, as the client
\* and error returned, and the cache and the backend's buckets left behind
GetClient(o, cache, ex, id) ==
  LET h == o.Storage.Hash
      bn == BucketName(o)
      fail(e) == [client |-> NoConn, err |-> e, cache |-> cache, exists |-> ex]
      ok(c, ex2) == [client |-> c, err |-> "", cache |-> [cache EXCEPT ![h] = c],
                     exists |-> ex2]
  IN IF CacheHit(cache[h])
     THEN {[client |-> cache[h], err |-> "", cache |-> cache, exists |-> ex]}
     ELSE {fail("dial"), fail("container")}
            \cup (IF <<h, bn>> \in ex THEN {ok(Conn(id, h, bn), ex)}
                  ELSE IF IsLocalKind(o.Storage.Kind)
                       THEN {fail("create"),
                             ok(Conn(id, h, o.Bucket), ex \cup {<<h, o.Bucket>>})}
                       ELSE {fail("not found")})

\* client.Item(key): the item, stow.ErrNotFound, or another error
Fetches(st) == IF st.present THEN {"found", "error"} ELSE {"notfound", "error"}

\* the key of the behaviour in the backend
NativeKey == getKey(config.Kind, config.PathPrefix, key)

\* prepareResponse: 500 when the item's metadata, ETag or LastMod cannot be read;
\* else 200 with the content-type of the metadata, or of a directory
prepareResponse(stream, item) ==
  IF item.attrs.metaErr \/ item.etagErr \/ item.lastModErr
  THEN Response(500, "error", "")
  ELSE Response(200, stream,
                IF item.attrs.ct # "absent" THEN item.attrs.ct
                ELSE IF isDir(item.attrs) THEN DirSentinel ELSE "")

\* a run that getClient's error ended: lines 42-45, 79-82, 104-107, 137-140, 162-165
Unavailable(name) ==
  [NoRun EXCEPT !.name = name, !.resp = Response(503, "error", ""), !.conn = "failed",
                !.fault = TRUE]

\* a run whose client.Item failed
FetchFailed(name, f) ==
  [NoRun EXCEPT !.name = name, !.conn = "ok", !.fetch = f, !.backend = {"item"},
                !.fault = (f = "error"),
                !.resp = IF f = "notfound" THEN Response(404, notFound, "")
                         ELSE Response(500, "error", "")]

\* Get, lines 58-69, with an item in hand
GetFound_OpenAll(item, openOk) ==
  LET run == [NoRun EXCEPT !.name = "Get", !.conn = "ok", !.fetch = "found", !.item = item,
                           !.backend = {"item"}, !.fault = ~Healthy(item)]
  IN IF ~openOk
     THEN [run EXCEPT !.opened = TRUE, !.fault = TRUE, !.backend = {"item", "open"},
                      !.resp = Response(500, "error", "")]
     ELSE [run EXCEPT !.opened = TRUE, !.backend = {"item", "open"},
                      !.resp = prepareResponse("stream", item)]

GetFound(item, openOk) ==
  LET run == [NoRun EXCEPT !.name = "Get", !.conn = "ok", !.fetch = "found", !.item = item,
                           !.backend = {"item"}, !.fault = ~Healthy(item)]
  IN IF isDir(item.attrs) = FALSE
     THEN IF ~openOk
          THEN [run EXCEPT !.opened = TRUE, !.fault = TRUE, !.backend = {"item", "open"},
                           !.resp = Response(500, "error", "")]
          ELSE [run EXCEPT !.opened = TRUE, !.backend = {"item", "open"},
                           !.resp = prepareResponse("stream", item)]
     ELSE [run EXCEPT !.resp = Response(404, "", "application/xml")]

\* Get, lines 36-70: every run from a getClient outcome g and the backend's item st
GetRuns(g, st) ==
  IF g.err # "" THEN {Unavailable("Get")}
  ELSE {IF f = "found" THEN GetFound(st, openOk) ELSE FetchFailed("Get", f) :
          f \in Fetches(st), openOk \in BOOLEAN}

\* Head, lines 73-96
HeadRuns(g, st) ==
  IF g.err # "" THEN {Unavailable("Head")}
  ELSE {IF f = "found"
        THEN [NoRun EXCEPT !.name = "Head", !.conn = "ok", !.fetch = "found", !.item = st,
                           !.backend = {"item"}, !.fault = ~Healthy(st),
                           !.resp = prepareResponse("", st)]
        ELSE FetchFailed("Head", f) : f \in Fetches(st)}

\* metaHeaders.Get(name)
HeaderGet(metaHeaders, name) ==
  IF name \in DOMAIN metaHeaders THEN metaHeaders[name][1] ELSE ""

\* the item a successful Put leaves: the metadata as put, the size as given
PutItem(metadata, contentLen) ==
  StoredItem([metaErr |-> FALSE, sizeErr |-> FALSE, is_dir |-> "absent",
              ct |-> IF ContentTypeKey \in DOMAIN metadata THEN metadata[ContentTypeKey]
                     ELSE "absent",
              size |-> contentLen],
             FALSE, FALSE)

\* client.Put(key, body, contentLen, metadata)
PutCall(nkey, contentLen, metadata) ==
  [key |-> nkey, contentLen |-> contentLen, metadata |-> metadata]

\* Set's call of client.Put and what follows it, lines 119-128: one run for the
\* Put failing, one for its success
PutRuns(run, kind, nkey, args, st) ==
  UNION {LET metadata == prepareMetadata(kind, args.metaHeaders, order, EmptyMap)
             put == [run EXCEPT !.backend = {"put"},
                                !.puts = <<PutCall(nkey, args.contentLen, metadata)>>]
         IN {[run |-> [put EXCEPT !.fault = TRUE, !.resp = Response(500, "error", "")],
              store |-> st],
             [run |-> [put EXCEPT !.resp = Response(200, "",
                                                    HeaderGet(args.metaHeaders,
                                                              HdrContentType))],
              store |-> PutItem(metadata, args.contentLen)]} :
           order \in Orders(DOMAIN args.metaHeaders)}

SetRuns_NoMarker(kind, nkey, args, st) ==
  PutRuns([NoRun EXCEPT !.name = "Set", !.conn = "ok", !.item = st, !.args = args],
          kind, nkey, args, st)

\* Set, lines 109-128, with a client in hand: the run and the item left behind
SetRuns(kind, nkey, args, st) ==
  LET run == [NoRun EXCEPT !.name = "Set", !.conn = "ok", !.item = st, !.args = args]
  IN IF kind = "s3" /\ args.contentLen = 0 /\ HasSuffix(nkey, <<Slash>>)
     THEN {[run |-> [run EXCEPT !.resp = Response(200, "", "")], store |-> st]}
     ELSE PutRuns(run, kind, nkey, args, st)

\* Delete, lines 150-155: the Head did not answer 200
DeleteNoRemove_Pass(resHead) == resHead

DeleteNoRemove_Ok(resHead) == Response(200, "", "")

DeleteNoRemove(resHead) ==
  IF resHead.status = 404 THEN Response(200, "", "") ELSE resHead

\* client.RemoveItem(key): a key that is there is removed unless the backend
\* fails; for a key that is gone some backends answer an error, some do not
Removals(st) ==
  IF st.present THEN {[err |-> FALSE, fault |-> FALSE], [err |-> TRUE, fault |-> TRUE]}
  ELSE {[err |-> FALSE, fault |-> FALSE], [err |-> TRUE, fault |-> FALSE]}

\* what the backend lists under a prefix: the behaviour's item, when it is there
ItemsUnder(kind, nkey, st) ==
  IF st.present /\ nkey # <<>>
  THEN <<ListedItem(nkey, IF IsLocalKind(kind) THEN "base" ELSE "id", st.attrs)>>
  ELSE <<>>

\* List, lines 167-264, with a client in hand and the behaviour's key as prefix
ListRuns(cfg, k, st) ==
  LET prefix == ListPrefix(cfg.PathPrefix, k)
      probed == prefix # <<>> /\ prefix # <<Slash>> /\ cfg.Kind = "local-meta"
      run == [NoRun EXCEPT !.name = "List", !.conn = "ok", !.item = st]
      listed(r) ==
        {[r EXCEPT !.backend = @ \cup {"items"}, !.fault = TRUE,
                   !.resp = Response(500, "error", "")],
         [r EXCEPT !.backend = @ \cup {"items"},
                   !.listing = ListResult(cfg.PathPrefix, k, ItemsUnder(cfg.Kind, prefix, st)),
                   !.resp = Response(200, "ListBucketResult", "application/xml")]}
  IN IF probed
     THEN UNION {IF f = "notfound"
                 THEN {[run EXCEPT !.fetch = f, !.backend = {"item"},
                                   !.resp = Response(404, "obj.Key", "")]}
                 ELSE listed([run EXCEPT !.fetch = f, !.backend = {"item"},
                                         !.fault = (f = "error")]) :
                   f \in Fetches(st)}
     ELSE listed(run)

\* the operation of task p has returned
Finish(p, run, overlapped) ==
  /\ log' = <<log[2], [run EXCEPT !.solo = ~overlapped]>>
  /\ opc' = [opc EXCEPT ![p] = "idle"]
  /\ op' = [op EXCEPT ![p] = NoRun]

\* a task starts an operation
Starts(p) == opc[p] = "idle" /\ ops < MaxOps

\* another task is inside an operation
Others(p) == {q \in Procs \ {p} : opc[q] # "idle"}

\* a step of task p overlaps the operations the others are inside
Overlap(p) == solo' = [q \in Procs |-> IF q \in Others(p) THEN FALSE ELSE solo[q]]

\* getClient has run: the cache, the buckets and the calls counted
Resolved(g) ==
  /\ storageCache' = g.cache
  /\ exists' = g.exists
  /\ calls' = calls + 1

RegRest ==
  <<readers, writer, fatal, config, callNo, pc, obj, container, result, everOk, stable, after, seen>>

Get(p) ==
  /\ Starts(p)
  /\ \E g \in GetClient(TheObject, storageCache, exists, calls + 1) :
       /\ Resolved(g)
       /\ \E run \in GetRuns(g, store) : Finish(p, run, Others(p) # {})
  /\ ops' = ops + 1
  /\ Overlap(p)
  /\ UNCHANGED <<key, store, RegRest, pureVars>>

HeadOp(p) ==
  /\ Starts(p)
  /\ \E g \in GetClient(TheObject, storageCache, exists, calls + 1) :
       /\ Resolved(g)
       /\ \E run \in HeadRuns(g, store) : Finish(p, run, Others(p) # {})
  /\ ops' = ops + 1
  /\ Overlap(p)
  /\ UNCHANGED <<key, store, RegRest, pureVars>>

Set(p) ==
  /\ Starts(p)
  /\ \E g \in GetClient(TheObject, storageCache, exists, calls + 1), args \in SetArgs :
       /\ Resolved(g)
       /\ IF g.err # ""
          THEN Finish(p, Unavailable("Set"), Others(p) # {}) /\ UNCHANGED store
          ELSE \E r \in SetRuns(config.Kind, NativeKey, args, store) :
                 Finish(p, r.run, Others(p) # {}) /\ store' = r.store
  /\ ops' = ops + 1
  /\ Overlap(p)
  /\ UNCHANGED <<key, RegRest, pureVars>>

\* Delete, lines 132-143 and 150-155: getClient, Head, and the return when the
\* Head did not answer 200
DeleteHead(p) ==
  /\ Starts(p)
  /\ \E g \in GetClient(TheObject, storageCache, exists, calls + 1) :
       IF g.err # ""
       THEN Resolved(g) /\ Finish(p, Unavailable("Delete"), Others(p) # {})
       ELSE \E g2 \in GetClient(TheObject, g.cache, g.exists, calls + 2) :
              /\ storageCache' = g2.cache /\ exists' = g2.exists /\ calls' = calls + 2
              /\ \E h \in HeadRuns(g2, store) :
                   IF h.resp.status = 200
                   THEN /\ opc' = [opc EXCEPT ![p] = "remove"]
                        /\ op' = [op EXCEPT ![p] = [h EXCEPT !.name = "Delete",
                                                             !.head = h.resp]]
                        /\ UNCHANGED log
                   ELSE Finish(p, [h EXCEPT !.name = "Delete", !.head = h.resp,
                                            !.resp = DeleteNoRemove(h.resp)],
                               Others(p) # {})
  /\ ops' = ops + 1
  /\ solo' = [q \in Procs |-> IF q = p THEN Others(p) = {}
                              ELSE IF q \in Others(p) THEN FALSE ELSE solo[q]]
  /\ UNCHANGED <<key, store, RegRest, pureVars>>

\* Delete, lines 144-149 and 155: RemoveItem, and the Head's response returned
DeleteRemove(p) ==
  /\ opc[p] = "remove"
  /\ \E r \in Removals(store) :
       IF r.err
       THEN /\ Finish(p, [op[p] EXCEPT !.backend = @ \cup {"removeItem"},
                                       !.fault = @ \/ r.fault,
                                       !.resp = Response(500, "error", "")],
                      ~solo[p])
            /\ UNCHANGED store
       ELSE /\ Finish(p, [op[p] EXCEPT !.backend = @ \cup {"removeItem"}], ~solo[p])
            /\ store' = NoItem
  /\ Overlap(p)
  /\ UNCHANGED <<key, ops, regVars, pureVars>>

List(p) ==
  /\ Starts(p)
  /\ \E g \in GetClient(TheObject, storageCache, exists, calls + 1) :
       /\ Resolved(g)
       /\ IF g.err # ""
          THEN Finish(p, Unavailable("List"), Others(p) # {})
          ELSE \E run \in ListRuns(config, key, store) : Finish(p, run, Others(p) # {})
  /\ ops' = ops + 1
  /\ Overlap(p)
  /\ UNCHANGED <<key, store, RegRest, pureVars>>

\* any configuration, the buckets there or not, any key, the item there or not
InitOps ==
  /\ RegIdle
  /\ config \in OpsConfigs
  /\ \E bs \in {{}, BucketNames} : exists = {<<config.Hash, b>> : b \in bs}
  /\ call = [fn |-> "none"]
  /\ ret = NotReturned
  /\ OpsIdle
  /\ key \in OpsKeys
  /\ store \in StoredItems \cup {NoItem}

NextOps ==
  \/ \E p \in Procs : Get(p)
  \/ \E p \in Procs : HeadOp(p)
  \/ \E p \in Procs : Set(p)
  \/ \E p \in Procs : DeleteHead(p)
  \/ \E p \in Procs : DeleteRemove(p)
  \/ \E p \in Procs : List(p)

SpecOps == InitOps /\ [][NextOps]_vars

(***************************************************************************)
(* Properties of the Client Registry, checked under Spec.                  *)
(***************************************************************************)
\* every getClient call for hash h has returned, and one of them a container
Quiet(h) == h \in everOk /\ \A q \in Procs : ~Inside(pc, obj, q, h)

\* C1: once the concurrent getClient calls for a hash have all returned and one
\* succeeded, the cache has an entry for the hash, the entry never changes again,
\* and every call that begins afterwards returns that entry's container.
C1_RegistryStable ==
  \A h \in Hashes :
    /\ (Quiet(h) => storageCache[h] \notin {NoConn, NilConn} /\ stable[h] = storageCache[h])
    /\ (stable[h] # NoConn => storageCache[h] = stable[h])
    /\ \A p \in Procs :
         (pc[p] = "returned" /\ after[p] /\ HashOf(p) = h) =>
           result[p] = [client |-> stable[h], err |-> ""]

\* two calls missed together and returned different containers; a later call
\* returned the one that stayed cached
C1_Witness ==
  \E p, q \in Procs :
    /\ p # q /\ pc[p] = "returned" /\ pc[q] = "returned"
    /\ HashOf(p) = HashOf(q)
    /\ after[p] /\ ~after[q]
    /\ result[q].err = "" /\ result[p].err = ""
    /\ result[q].client # result[p].client
    /\ result[p].client = storageCache[HashOf(p)]

\* the cache has a container under the hash
Entry(c) == c # NoConn /\ c # NilConn

\* task p takes a step of its getClient call
Steps(p) == pc'[p] # pc[p]

\* C11: when client.Container reports not-found, a local kind has the container
\* created, stored under the hash and returned, and a lookup that finds it returns
\* it; any other kind returns an error; and no call that returns an error (a dial
\* failure included) has changed the cache.
C11_NotFound ==
  [][\A p \in Procs :
       LET h == HashOf(p)
           missing == <<h, BucketName(obj[p])>> \notin exists
       IN /\ (pc[p] = "container" /\ Steps(p) /\ missing) =>
               IF IsLocalKind(obj[p].Storage.Kind)
               THEN pc'[p] = "create" \/ (pc'[p] = "returned" /\ result'[p].err = "container")
               ELSE pc'[p] = "returned" /\ result'[p].client = NoConn /\ result'[p].err # ""
          /\ (pc[p] \in {"lookup", "dial", "container", "create"} /\ Steps(p)) =>
               storageCache' = storageCache
          /\ (Steps(p) /\ pc'[p] = "returned" /\ result'[p].err # "") =>
               pc[p] \in {"dial", "container", "create"} /\ result'[p].client = NoConn
          /\ (pc[p] = "create" /\ pc'[p] = "cstore") =>
               /\ IsLocalKind(obj[p].Storage.Kind)
               /\ <<h, obj[p].Bucket>> \in exists'
          /\ (pc[p] = "cassign" /\ Steps(p)) =>
               /\ storageCache'[h] = container[p] /\ Entry(container[p])
               /\ pc'[p] = "returned" /\ result'[p] = [client |-> container[p], err |-> ""]
          /\ (pc[p] = "lookup" /\ Steps(p) /\ storageCache[h] # NoConn) =>
               pc'[p] = "returned" /\ result'[p] = [client |-> storageCache[h], err |-> ""]
    ]_vars

\* a local-meta call created the bucket and cached its container; the call after
\* it had the container from the cache
C11_Witness ==
  \E p, q \in Procs :
    /\ p # q /\ config = CfgMeta
    /\ pc[p] = "returned" /\ pc[q] = "returned"
    /\ result[p] = [client |-> Conn(callNo[p], CfgMeta.Hash, "b1"), err |-> ""]
    /\ seen[q] = result[p].client /\ result[q] = result[p]
    /\ storageCache[CfgMeta.Hash] = result[p].client

\* C12: an entry of the cache is never removed, and a call that begins when its
\* hash has an entry returns a cached container without dialing.
C12_Permanent ==
  [][/\ \A h \in Hashes :
          /\ storageCache[h] # NoConn => storageCache'[h] # NoConn
          /\ Entry(storageCache[h]) => Entry(storageCache'[h])
     /\ \A p \in Procs :
          Entry(seen'[p]) =>
            /\ pc'[p] \in {"lookup", "returned"}
            /\ Entry(storageCache'[HashOf(p)'])
            /\ (pc[p] = "lookup" /\ Steps(p)) =>
                 result'[p] = [client |-> storageCache[HashOf(p)], err |-> ""]
            /\ pc'[p] = "returned" => result'[p].err = "" /\ Entry(result'[p].client)
    ]_vars

\* a call began with its hash cached and returned the cached container
C12_Witness ==
  \E p \in Procs :
    /\ pc[p] = "returned" /\ Entry(seen[p])
    /\ result[p] = [client |-> seen[p], err |-> ""]
    /\ storageCache[HashOf(p)] = seen[p]

\* C20 (as claimed): the container a call made, and the container cached for a
\* hash, are bound to the bucket the call tried to open: the configuration's
\* bucket when it has one, else the object's.
C20_SameBucket ==
  /\ \A p \in Procs :
       Entry(container[p]) => container[p].bucket = BucketName(obj[p])
  /\ \A p \in Procs :
       (pc[p] = "returned" /\ result[p].err = "" /\ Entry(result[p].client)) =>
         /\ result[p].client.bucket = BucketName(obj[p])
         /\ Entry(storageCache[HashOf(p)]) =>
              storageCache[HashOf(p)].bucket = BucketName(obj[p])

\* a task is at a write of the cache
AtWrite(p) == pc[p] \in {"store", "cstore", "cassign"}

\* C10 (as claimed): a task writes the cache only while it holds the exclusive
\* lock, so no write is concurrent with a lookup under the shared lock or with
\* another write.
C10_WritesUnderLock ==
  \A p \in Procs :
    AtWrite(p) =>
      /\ writer = p
      /\ \A q \in Procs \ {p} : ~AtWrite(q) /\ pc[q] # "lookup"

(***************************************************************************)
(* Properties of the object operations, checked under SpecOps.             *)
(***************************************************************************)
\* the operations whose runs the log holds
Logged == {log[i] : i \in {1, 2}} \ {NoRun}

\* the run met no failure of the backend and no other task's operation
Undisturbed(run) == run.solo /\ ~run.fault

\* C2: with a reachable backend and nothing in between, Delete of a key that is
\* not there returns 200 each time, and Delete of a key that is there returns 200
\* and the Delete after it, finding the key gone, returns 200 again.
C2_DeleteIdempotent ==
  /\ \A run \in Logged :
       (run.name = "Delete" /\ Undisturbed(run)) => run.resp.status = 200
  /\ (log[1].name = "Delete" /\ log[2].name = "Delete"
        /\ Undisturbed(log[1]) /\ Undisturbed(log[2])) =>
       /\ ~log[2].item.present
       /\ log[2].fetch = "notfound"
       /\ log[2].resp.status = 200
       /\ "removeItem" \notin log[2].backend
       /\ (log[1].item.present <=> "removeItem" \in log[1].backend)

\* a Delete removed the key and the next Delete answered 200 for the key gone
C2_Witness ==
  /\ log[1].name = "Delete" /\ log[2].name = "Delete"
  /\ Undisturbed(log[1]) /\ Undisturbed(log[2])
  /\ log[1].item.present /\ "removeItem" \in log[1].backend
  /\ log[1].resp.status = 200 /\ log[2].resp.status = 200
  /\ ~store.present

\* C4: Get answers 404 with the not-found body when the backend reports the key
\* absent, 404 with an empty body and content-type application/xml when the item
\* is a directory, and opens a stream only for an item that is there and is not a
\* directory.
C4_GetStatuses ==
  \A run \in Logged :
    run.name = "Get" =>
      /\ (run.conn = "ok" /\ ~run.item.present /\ ~run.fault) => run.fetch = "notfound"
      /\ run.fetch = "notfound" => run.resp = Response(404, notFound, "")
      /\ (run.fetch = "found" /\ isDir(run.item.attrs)) =>
           run.resp = Response(404, "", "application/xml")
      /\ run.opened <=> (run.fetch = "found" /\ run.item.present /\ ~isDir(run.item.attrs))
      /\ run.opened <=> "open" \in run.backend

\* a Set put an empty item under the key; the Get after it found the item, took
\* it for a directory and answered 404 without opening it
C4_Witness ==
  /\ log[1].name = "Set" /\ "put" \in log[1].backend /\ log[1].resp.status = 200
  /\ log[2].name = "Get" /\ log[2].fetch = "found" /\ isDir(log[2].item.attrs)
  /\ log[2].resp = Response(404, "", "application/xml") /\ ~log[2].opened

\* one run is a Get, the other a Head, of the same key in the same backend state
\* with the same answers of the backend (so the Get's stream opened, if it was
\* asked for)
SameCase(a, b) ==
  /\ a.name = "Get" /\ b.name = "Head"
  /\ a.conn = b.conn /\ a.fetch = b.fetch /\ a.item = b.item
  /\ a.fault = b.fault

\* C5 (as claimed): Head answers the status Get answers for the same reference and
\* backend state, and never opens the stream.
C5_HeadAsGet ==
  /\ \A run \in Logged : run.name = "Head" => ~run.opened
  /\ \A a, b \in Logged : SameCase(a, b) => a.resp.status = b.resp.status

\* C6 (as claimed): when getClient fails the operation answers 503 and calls no
\* item, items, put or removeItem; when an item fetch fails otherwise than by
\* not-found the operation answers 500.
C6_ErrorClasses ==
  \A run \in Logged :
    /\ run.conn = "failed" => run.resp.status = 503 /\ run.backend = {}
    /\ run.fetch = "error" => run.resp.status = 500

(***************************************************************************)
(* Properties of the helpers, checked under SpecPure.                      *)
(***************************************************************************)
Str_a_b == <<"a", Slash, "b">>
Str_sa == <<Slash, "a">>
Str_sb == <<Slash, "b">>
Str_sa_b == <<Slash, "a", Slash, "b">>

\* the non-empty elements of a path
RECURSIVE NonEmpty(_)
NonEmpty(parts) ==
  IF parts = <<>> THEN <<>>
  ELSE IF Head(parts) = <<>> THEN NonEmpty(Tail(parts))
  ELSE <<Head(parts)>> \o NonEmpty(Tail(parts))

Elems(p) == NonEmpty(Split(p, Slash))

DotFree(p) == \A i \in 1..Len(p) : p[i] # "."

\* a path in POSIX-joined form: no doubled or trailing separator (the root aside)
JoinedForm(p) ==
  /\ \A i \in 1..(Len(p) - 1) : ~(p[i] = Slash /\ p[i + 1] = Slash)
  /\ (Len(p) > 1 => p[Len(p)] # Slash)

\* C7: getKey joins pathPrefix and key as POSIX paths (separators collapsed, no
\* trailing separator, the elements of the prefix followed by those of the key);
\* for kind b2 the leading separator of the joined path is stripped, so ("/a", "/b")
\* gives "a/b"; for every other kind it is kept, so s3 gives "/a/b".
C7_KeyResolution ==
  (call.fn = "getKey" /\ ret.done) =>
    LET raw == IF call.pathPrefix = <<>> THEN call.key
               ELSE IF call.key = <<>> THEN call.pathPrefix
               ELSE call.pathPrefix \o <<Slash>> \o call.key
        rooted == raw # <<>> /\ raw[1] = Slash
        k == ret.key
    IN /\ (DotFree(raw) => Elems(k) = Elems(call.pathPrefix) \o Elems(call.key))
       /\ JoinedForm(k)
       /\ (call.kind = "b2" => (k = <<>> \/ k[1] # Slash))
       /\ (call.kind = "b2" /\ rooted /\ DotFree(raw) => <<Slash>> \o k = getKey("s3", call.pathPrefix, call.key))
       /\ (call.kind # "b2" /\ rooted => k[1] = Slash)
       /\ (call.kind # "b2" /\ ~rooted /\ raw # <<>> => k[1] # Slash)
       /\ (call.pathPrefix = Str_sa /\ call.key = Str_sb =>
             k = IF call.kind = "b2" THEN Str_a_b ELSE Str_sa_b)

C7_Witness ==
  /\ call.fn = "getKey" /\ ret.done
  /\ call.kind = "b2" /\ call.pathPrefix = Str_sa /\ call.key = Str_sb
  /\ ret.key = Str_a_b

\* C8: isDir decides by the first of: the is_dir flag, the content-type being the
\* directory sentinel, the size being zero; an item whose metadata cannot be read
\* is not a directory.
C8_DirPrecedence ==
  (call.fn = "isDir" /\ ret.done) =>
    LET i == call.item
    IN /\ (i.metaErr => ~ret.dir)
       /\ (~i.metaErr /\ i.is_dir = "true" => ret.dir)
       /\ (~i.metaErr /\ i.is_dir = "false" => ~ret.dir)
       /\ (~i.metaErr /\ i.is_dir = "absent" /\ i.ct = DirSentinel => ret.dir)
       /\ (~i.metaErr /\ i.is_dir = "absent" /\ i.ct = "text/plain" => ~ret.dir)
       /\ (~i.metaErr /\ i.is_dir = "absent" /\ i.ct = "absent" /\ ~i.sizeErr =>
             (ret.dir <=> i.size = 0))

C8_Witness ==
  /\ call.fn = "isDir" /\ ret.done
  /\ ~call.item.metaErr /\ call.item.is_dir = "true" /\ call.item.size # 0
  /\ ret.dir

\* no other header of the Set has the same name up to case
UniqueName(hs, k) == \A k2 \in DOMAIN hs : ToLower(k2) = ToLower(k) => k2 = k

\* C9 (as claimed): for s3, every header x-amz-meta-<n> passed to Set comes back
\* from a later Get/Head as x-amz-meta-<n> with the same value, and Content-Type
\* comes back as content-type with the same value.
C9_MetadataRoundTrip ==
  (call.fn = "metadata" /\ call.kind = "s3" /\ ret.done /\ ret.read) =>
    \A k \in DOMAIN call.metaHeaders :
      UniqueName(call.metaHeaders, k) =>
        /\ (HasPrefix(ToLower(k), XAmzMetaDash) =>
              /\ ToLower(k) \in DOMAIN ret.headers
              /\ ret.headers[ToLower(k)] = call.metaHeaders[k][1])
        /\ (ToLower(k) = ContentTypeKey /\ DOMAIN call.metaHeaders = {k} =>
              /\ ContentTypeKey \in DOMAIN ret.headers
              /\ ret.headers[ContentTypeKey] = call.metaHeaders[k][1])

\* the keys of a listing's items, and how often x occurs in a sequence
IDsOf(items) == {items[i].id : i \in 1..Len(items)}
Count(seq, x) == Cardinality({i \in 1..Len(seq) : seq[i] = x})

\* C3 (as claimed): listing the flat keys a/b, a/c, a/d/e, a/d/f under prefix "a/"
\* gives a Contents entry a/b and a/c for the direct children that are there and
\* exactly one CommonPrefixes entry a/d/ when a deeper key is there.
C3_ListGroups ==
  (/\ call.fn = "List" /\ ret.done
   /\ call.pathPrefix = <<>> /\ call.prefix = <<"a", Slash>>
   /\ IDsOf(call.items) \subseteq {IdAB, IdAC, IdADE, IdADF}
   /\ \A i \in 1..Len(call.items) :
        call.items[i].name = call.items[i].id /\ call.items[i].attrs = FileAttrs) =>
    /\ \A id \in IDsOf(call.items) \cap {IdAB, IdAC} : Count(ret.result.Contents, id) = 1
    /\ (IDsOf(call.items) \cap {IdADE, IdADF} # {} =>
          Count(ret.result.CommonPrefixes, IdAD) = 1)

\* C13 (as claimed): for every kind but b2, the key getKey returns ends with a
\* separator whenever the logical key ends with one.
C13_TrailingSeparator ==
  (call.fn = "getKey" /\ ret.done /\ call.kind # "b2"
     /\ HasSuffix(call.key, <<Slash>>)) =>
    HasSuffix(ret.key, <<Slash>>)

\* the item is a direct child of the effective prefix, and a directory
DirectChildDir(item, prefix) ==
  /\ Len(Split(item.id, Slash)) <= Len(Split(prefix, Slash))
  /\ isDir(item.attrs) /\ item.name # <<>>

\* C16 (as claimed): no item gives both a Contents and a CommonPrefixes entry, and
\* a direct-child directory, emitted as a common prefix, gives no Contents entry.
C16_PrefixOrContent ==
  (call.fn = "List" /\ ret.done) =>
    /\ Len(ret.result.Contents) + Len(ret.result.CommonPrefixes) <= Len(call.items)
    /\ (Len(call.items) = 1
          /\ DirectChildDir(call.items[1], ListPrefix(call.pathPrefix, call.prefix))) =>
         /\ ret.result.CommonPrefixes = <<call.items[1].name \o <<Slash>>>>
         /\ ret.result.Contents = <<>>

\* C17: the CommonPrefixes of a List result hold no value twice, and every one of
\* them ends with a separator.
C17_PrefixesOnce ==
  (call.fn = "List" /\ ret.done) =>
    LET cps == ret.result.CommonPrefixes
    IN /\ \A i, j \in 1..Len(cps) : cps[i] = cps[j] => i = j
       /\ \A i \in 1..Len(cps) : HasSuffix(cps[i], <<Slash>>)

\* a/d/e, a/d/f and a directory b, listed with no prefix, gave the common prefix
\* a/ once and b/ once
C17_Witness ==
  /\ call.fn = "List" /\ ret.done
  /\ Len(call.items) = 3
  /\ {IdADE, IdADF} \subseteq IDsOf(call.items)
  /\ Len(ret.result.CommonPrefixes) = 2
  /\ Count(ret.result.CommonPrefixes, <<"a", Slash>>) = 1

\* the header is one prepareMetadata keeps
Kept(kind, k) ==
  \/ HasPrefix(ToLower(k), XAmzMeta)
  \/ ToLower(k) = ContentTypeKey
  \/ (kind # "s3" /\ ToLower(k) = ETagKey)

\* the header's name with the custom-metadata prefix taken off
Stripped(k) == TrimPrefix(ToLower(k), XAmzMetaDash)

\* the name a kept header is stored under: for s3 the prefix is taken off, for
\* the other kinds it stays
StoredName(kind, k) == IF kind = "s3" THEN Stripped(k) ELSE ToLower(k)

\* C18 (amended): Set keeps only the headers named content-type, x-amz-meta...
\* or (not for s3) etag, up to case; each is stored with its first value, for s3
\* under its lower-case name without the x-amz-meta- prefix, for every other kind
\* under its lower-case name with the prefix.
C18_InboundMetadata ==
  (call.fn = "metadata" /\ ret.done) =>
    LET hs == call.metaHeaders
        kept == {k \in DOMAIN hs : Kept(call.kind, k)}
    IN /\ DOMAIN ret.metadata = {StoredName(call.kind, k) : k \in kept}
       /\ \A m \in DOMAIN ret.metadata :
            \E k \in kept : StoredName(call.kind, k) = m /\ ret.metadata[m] = hs[k][1]

\* a local Set with x-amz-meta-c: red, blue stored red under x-amz-meta-c
C18_Witness ==
  /\ call.fn = "metadata" /\ ret.done /\ call.kind = "local"
  /\ DOMAIN call.metaHeaders = {HdrColor, HdrOther}
  /\ call.metaHeaders[HdrColor] = <<"red", "blue">>
  /\ DOMAIN ret.metadata = {HdrColor} /\ ret.metadata[HdrColor] = "red"

\* C18 (as claimed): for every kind, a header with the x-amz-meta- prefix is
\* stored under its name without the prefix.
C18_StripEveryKind ==
  (call.fn = "metadata" /\ ret.done) =>
    \A k \in DOMAIN call.metaHeaders :
      HasPrefix(ToLower(k), XAmzMetaDash) =>
        /\ Stripped(k) \in DOMAIN ret.metadata
        /\ ToLower(k) \notin DOMAIN ret.metadata

\* a step that completes a Set and logs its run
SetStep == ops' = ops + 1 /\ opc' = opc /\ log'[2].name = "Set"

\* the metadata Set hands to client.Put for the headers it was given
Translated(metaHeaders) ==
  IF HdrContentType \in DOMAIN metaHeaders
  THEN [k \in {ContentTypeKey} |-> metaHeaders[HdrContentType][1]]
  ELSE EmptyMap

\* the s3 case in which Set uploads nothing
Marker(run) ==
  config.Kind = "s3" /\ run.args.contentLen = 0 /\ HasSuffix(NativeKey, <<Slash>>)

\* C14: a Set that got its client, for the s3 kind with contentLen 0 and a native
\* key ending in the separator, returns 200 with no Put and leaves the store as
\* it was; any other Set calls Put exactly once, with the native key and the
\* translated metadata, and returns 200 when the Put succeeds and 500 when it
\* fails.
C14_SetPuts ==
  [][SetStep /\ log'[2].conn = "ok" =>
       LET run == log'[2]
       IN IF Marker(run)
          THEN /\ run.resp = Response(200, "", "")
               /\ run.puts = <<>>
               /\ "put" \notin run.backend
               /\ store' = store
          ELSE /\ Len(run.puts) = 1
               /\ run.puts[1] = PutCall(NativeKey, run.args.contentLen,
                                        Translated(run.args.metaHeaders))
               /\ run.resp.status = IF run.fault THEN 500 ELSE 200
               /\ run.fault => store' = store
               /\ ~run.fault => /\ store'.present
                                /\ store' = PutItem(Translated(run.args.metaHeaders),
                                                    run.args.contentLen)]_vars

\* an s3 Set of nothing under a key ending in the separator answered 200 without
\* a Put, after a Set that had put the same key with content
C14_Witness ==
  /\ log[1].name = "Set" /\ log[1].conn = "ok" /\ Len(log[1].puts) = 1
  /\ log[1].resp.status = 200 /\ log[1].args.contentLen = 1
  /\ log[2].name = "Set" /\ log[2].conn = "ok" /\ Marker(log[2])
  /\ log[2].puts = <<>> /\ log[2].resp.status = 200
  /\ store.present /\ store = log[2].item


\* a step in which a Delete returns after its Head, and one in which a Delete
\* returns after its RemoveItem
HeadStep == ops' = ops + 1 /\ opc' = opc /\ log'[2].name = "Delete" /\ log'[2].conn = "ok"
RemoveStep == \E p \in Procs : opc[p] = "remove" /\ opc'[p] = "idle"

\* C15: Delete calls the backend's Head first and RemoveItem only after a Head
\* that answered 200, a failing RemoveItem giving 500; after a Head that answered
\* 404 it returns 200 and removes nothing; after any other Head status it returns
\* the Head's response as it is and the stored item stays as it was.
C15_HeadFirst ==
  [][/\ \A p \in Procs : opc'[p] = "remove" =>
          /\ op'[p].head.status = 200
          /\ "item" \in op'[p].backend
     /\ HeadStep =>
          LET run == log'[2]
          IN /\ run.head.status # 200
             /\ "item" \in run.backend
             /\ "removeItem" \notin run.backend
             /\ store' = store
             /\ run.resp = IF run.head.status = 404 THEN Response(200, "", "")
                           ELSE run.head
     /\ RemoveStep =>
          LET run == log'[2]
          IN /\ run.name = "Delete"
             /\ run.head.status = 200
             /\ "removeItem" \in run.backend
             /\ \/ run.resp = run.head /\ ~store'.present
                \/ run.resp = Response(500, "error", "") /\ store' = store]_vars

\* a Delete whose Head answered 500, the backend failing to fetch the item,
\* returned that response and left the item, and the Delete after it, its Head
\* answering 200, removed the item
C15_Witness ==
  /\ log[1].name = "Delete" /\ log[1].conn = "ok" /\ log[1].fetch = "error"
  /\ log[1].head.status = 500 /\ log[1].resp = log[1].head
  /\ "removeItem" \notin log[1].backend
  /\ log[2].name = "Delete" /\ log[2].head.status = 200
  /\ "removeItem" \in log[2].backend /\ log[2].resp.status = 200
  /\ ~store.present

\* a run of Delete on a reachable backend that holds the key in good order and
\* fails at nothing but the removal of a key already removed
FoundIt(run) ==
  /\ run.name = "Delete" /\ run.conn = "ok" /\ ~run.fault
  /\ run.item.present /\ Healthy(run.item) /\ run.head.status = 200

\* C19: two Deletes of the same existing key that overlap, on a backend whose
\* RemoveItem reports an error for a key already removed, both return 200.
C19_ConcurrentDeletes ==
  (FoundIt(log[1]) /\ FoundIt(log[2]) /\ ~log[1].solo /\ ~log[2].solo) =>
    log[1].resp.status = 200 /\ log[2].resp.status = 200

====
